---------------------------- MODULE Spec2Model ----------------------------
(***************************************************************************)
(* Model of the SMSPool Telegram bot's background monitoring core:         *)
(*   src/monitoring.py  MonitoringService (the two monitor loops)          *)
(*   src/database.py    Database (the sqlite store)                        *)
(*   src/smspool_api.py SMSPoolAPI (the remote client's result mapping)    *)
(*   src/main.py        handle_confirm_rent, post_init, post_stop          *)
(*                                                                         *)
(* The program runs on one asyncio event loop: a task runs without         *)
(* interruption from one await to the next.  Every action below is one     *)
(* such step: it resumes a task at the await it is suspended at and runs   *)
(* the code up to the next await.  A pc value names the await a task is    *)
(* suspended at.                                                           *)
(*                                                                         *)
(* Time is counted in ticks of one sweep interval: the inter-sweep sleep   *)
(* ends only after the clock has advanced.  Python's datetime.now() is     *)
(* local time (now + tz); sqlite's CURRENT_TIMESTAMP is UTC (now).         *)
(***************************************************************************)
EXTENDS Integers, Sequences, FiniteSets

(* ------------------------------ bounds -------------------------------- *)

\* number of registered users
NumUsers == 2

\* number of rentals the remote service sells in one run
MaxOrders == 2

\* the clock stops after this many ticks
MaxTime == 2

\* start_monitoring takes effect at most this many times (main.py: once)
MaxStarts == 1

\* size of the process's offset from UTC, in ticks
TzSkew == 3

(* ------------------------- program constants -------------------------- *)

\* rent_number: expires_in defaults to 600 s, here 2 ticks
DEFAULT_EXPIRES_IN == 2

\* a TTL quoted by the remote service that differs from the default
QUOTED_EXPIRES_IN == 1

\* Config.MONITORING_INTERVAL and the order monitor's sleep(30): one tick
MONITORING_INTERVAL == 1

Users == 1..NumUsers
OrderIds == 1..MaxOrders
TzOffsets == {0 - TzSkew, 0, TzSkew}
Terminal == {"completed", "refunded", "expired", "cancelled"}
AllFaults == {"store", "remote", "notify"}

\* SQL NULL / Python None for a timestamp column
NoTime == 0 - 100

VARIABLES
    now,                \* the clock, UTC
    tz,                 \* the process's offset from UTC
    faults,             \* the kinds of failure the environment may produce
    start_limit,        \* times the application starts the service in this run
    \* users and monitoring_status tables
    userRow,            \* u -> the users row exists with is_active = 1
    balance,            \* u -> users.balance
    is_monitoring,      \* u -> monitoring_status.is_monitoring
    notification_sent,  \* u -> monitoring_status.notification_sent
    last_check,         \* u -> monitoring_status.last_check
    \* orders table
    status,             \* o -> orders.status, "none" while no row exists
    owner,              \* o -> orders.user_id
    expires_at,         \* o -> orders.expires_at (local time)
    sms_content,        \* o -> orders.sms_content
    completed_at,       \* o -> orders.completed_at (UTC)
    sold,               \* number of rentals the remote service has sold
    \* MonitoringService
    is_running,
    starts,             \* times start_monitoring created the tasks
    stop_pc,            \* where stop_monitoring is suspended
    a_pc, a_queue, a_cur, a_wake, a_cancel,   \* monitoring_task
    o_pc, o_queue, o_cur, o_wake, o_cancel,   \* sms_checking_task
    \* SMSPoolAPI and the application
    session,            \* smspool_api.session: "none", "open" or "closed"
    opened,             \* ClientSession objects created and not yet closed
    post_pc,            \* "up" until post_stop has closed the client, then "down"
    \* history of what was sent and obtained
    termNotif,          \* o -> terminal notifications sent for o
    refunds,            \* o -> cancel/refund calls the remote service carried out
    a_failed,           \* users whose handling met a failure in the current sweep
    o_failed,           \* orders whose handling met a failure in the current sweep
    unsent              \* <<"user", u>>: the availability notification of u's open
                        \* window failed; <<"order", o>>: a terminal notification of o failed

storeVars == <<userRow, balance, is_monitoring, notification_sent, last_check,
               status, owner, expires_at, sms_content, completed_at, sold>>
svcVars == <<is_running, starts, stop_pc>>
aVars == <<a_pc, a_queue, a_cur, a_wake, a_cancel>>
oVars == <<o_pc, o_queue, o_cur, o_wake, o_cancel>>
histVars == <<termNotif, refunds, a_failed, o_failed>>
apiVars == <<session, opened, post_pc>>
vars == <<now, tz, faults, start_limit, storeVars, svcVars, aVars, oVars, histVars, apiVars, unsent>>

(* ------------------------- environment outcomes ----------------------- *)

\* a sqlite statement succeeds, or raises and the Database method's except
\* clause returns False / [] / None
StoreOutcomes == IF "store" \in faults THEN {TRUE, FALSE} ELSE {TRUE}

\* bot.send_message returns, or raises TelegramError
SendOutcomes == IF "notify" \in faults THEN {TRUE, FALSE} ELSE {TRUE}

\* what _make_request returns: None on timeout / connection error / HTTP
\* error, else the decoded JSON body
Transport == IF "remote" \in faults THEN {"none"} ELSE {}

\* /sms/stock bodies: success = 1 with an amount, success = 0, the legacy
\* "stock" field, or a body with none of these
StockResponses ==
    {[k |-> x, n |-> 0] : x \in Transport}
    \cup {[k |-> "amount", n |-> 0], [k |-> "amount", n |-> 3],
          [k |-> "error", n |-> 0], [k |-> "stock", n |-> 1]}
    \cup (IF "remote" \in faults THEN {[k |-> "other", n |-> 0]} ELSE {})

\* /sms/check bodies: a code, status "completed" without a code, or pending
SmsResponses == Transport \cup {"code", "completed_nocode", "pending"}

\* /sms/cancel bodies: success = 1 or success = 0
CancelResponses == Transport \cup {"success", "refused"}

\* /request/balance bodies: a balance, a balance that float() rejects, or
\* an error body
RemoteBalances == {2}
BalanceResponses ==
    {[k |-> x, v |-> 0] : x \in Transport}
    \cup {[k |-> "balance", v |-> b] : b \in RemoteBalances}
    \cup (IF "remote" \in faults
             THEN {[k |-> "badformat", v |-> 0], [k |-> "error", v |-> 0]}
             ELSE {})

\* /purchase/sms bodies: success = 1 with or without expires_in, or an error
RentResponses == Transport \cup {"sold", "sold_ttl", "refused"}

(* -------------------- smspool_api.py: result mapping ------------------ *)

check_service_availability(resp) ==
    IF resp.k \in {"amount", "stock"} /\ resp.n > 0
        THEN [available |-> TRUE, count |-> resp.n]
        ELSE [available |-> FALSE, count |-> 0]

check_sms(resp) ==
    CASE resp = "code" -> [received |-> TRUE, sms_content |-> "1234"]
      [] resp = "completed_nocode" -> [received |-> TRUE, sms_content |-> "N/A"]
      [] OTHER -> [received |-> FALSE, sms_content |-> "NULL"]

cancel_order(resp) == [success |-> (resp = "success")]

\* verify_api_key: valid iff the body carries a balance that parses
verify_api_key(resp) ==
    IF resp.k = "balance"
        THEN [valid |-> TRUE, balance |-> resp.v]
        ELSE [valid |-> FALSE, balance |-> 0]

get_balance(resp) ==
    IF resp.k = "balance"
        THEN [success |-> TRUE, balance |-> resp.v]
        ELSE [success |-> FALSE, balance |-> 0]

\* rent_number with the quoted expires_in ignored
rent_number_DefaultOnly(resp) ==
    CASE resp \in {"sold", "sold_ttl"} -> [success |-> TRUE, expires_in |-> DEFAULT_EXPIRES_IN]
      [] OTHER -> [success |-> FALSE, expires_in |-> 0]

rent_number(resp) ==
    CASE resp = "sold" -> [success |-> TRUE, expires_in |-> DEFAULT_EXPIRES_IN]
      [] resp = "sold_ttl" -> [success |-> TRUE, expires_in |-> QUOTED_EXPIRES_IN]
      [] OTHER -> [success |-> FALSE, expires_in |-> 0]

(* ----------------------- database.py: queries ------------------------- *)

LocalNow == now + tz

\* the ids in S in ascending order (rowid / created_at order)
RECURSIVE Ascending(_)
Ascending(S) ==
    IF S = {} THEN << >>
    ELSE LET m == CHOOSE x \in S : \A y \in S : x <= y
         IN <<m>> \o Ascending(S \ {m})

get_user(u, ok) == ok /\ userRow[u]

\* get_all_active_users without the is_monitoring condition of the WHERE
get_all_active_users_AnyFlag(ok) ==
    IF ok THEN Ascending({u \in Users : userRow[u]})
    ELSE << >>

\* WHERE u.is_active = 1 AND (m.is_monitoring = 1 OR m.is_monitoring IS NULL);
\* save_user writes both rows in one transaction, so no user is without a
\* monitoring_status row
get_all_active_users(ok) ==
    IF ok THEN Ascending({u \in Users : userRow[u] /\ is_monitoring[u]})
    ELSE << >>

get_active_orders(u, ok) ==
    IF ok THEN {o \in OrderIds : owner[o] = u /\ status[o] = "active"}
    ELSE {}

\* get_all_active_orders without "status = 'active'" in the WHERE
get_all_active_orders_AnyStatus(ok) ==
    IF ok THEN Ascending({o \in OrderIds : status[o] # "none" /\ expires_at[o] > now})
    ELSE << >>

\* WHERE status = 'active' AND expires_at > CURRENT_TIMESTAMP
get_all_active_orders(ok) ==
    IF ok THEN Ascending({o \in OrderIds : status[o] = "active" /\ expires_at[o] > now})
    ELSE << >>


(* ----------------------- database.py: updates ------------------------- *)

\* update_order_sms with only the sms_content column written
update_order_sms_ContentOnly(o, content, ok) ==
    IF ok /\ status[o] # "none"
    THEN /\ sms_content' = [sms_content EXCEPT ![o] = content]
         /\ UNCHANGED <<status, completed_at>>
    ELSE UNCHANGED <<status, sms_content, completed_at>>

\* UPDATE orders SET sms_content = ?, status = 'completed',
\*   completed_at = CURRENT_TIMESTAMP WHERE order_id = ?
update_order_sms(o, content, ok) ==
    IF ok /\ status[o] # "none"
    THEN /\ status' = [status EXCEPT ![o] = "completed"]
         /\ sms_content' = [sms_content EXCEPT ![o] = content]
         /\ completed_at' = [completed_at EXCEPT ![o] = now]
    ELSE UNCHANGED <<status, sms_content, completed_at>>

\* update_order_status with "expired" never written: a failed refund leaves
\* the order as it was
update_order_status_RefundedOnly(o, st, ok) ==
    IF ok /\ status[o] # "none" /\ st = "refunded"
    THEN /\ status' = [status EXCEPT ![o] = st]
         /\ completed_at' = [completed_at EXCEPT ![o] = now]
    ELSE UNCHANGED <<status, completed_at>>

\* UPDATE orders SET status = ?, completed_at = CURRENT_TIMESTAMP WHERE order_id = ?
update_order_status(o, st, ok) ==
    IF ok /\ status[o] # "none"
    THEN /\ status' = [status EXCEPT ![o] = st]
         /\ completed_at' = [completed_at EXCEPT ![o] = now]
    ELSE UNCHANGED <<status, completed_at>>

\* update_user_balance with the UPDATE statement left out
update_user_balance_Skipped(u, b, ok) ==
    balance' = balance

\* UPDATE users SET balance = ? WHERE user_id = ?
update_user_balance(u, b, ok) ==
    balance' = IF ok THEN [balance EXCEPT ![u] = b] ELSE balance

\* update_monitoring_status with notification_sent left out of the UPDATE
update_monitoring_status_KeepsFlag(u, t, sent, ok) ==
    IF ok
    THEN /\ last_check' = [last_check EXCEPT ![u] = t]
         /\ UNCHANGED notification_sent
    ELSE UNCHANGED <<last_check, notification_sent>>

\* UPDATE monitoring_status SET last_check = ?, notification_sent = ? WHERE user_id = ?
update_monitoring_status(u, t, sent, ok) ==
    IF ok
    THEN /\ last_check' = [last_check EXCEPT ![u] = t]
         /\ notification_sent' = [notification_sent EXCEPT ![u] = sent]
    ELSE UNCHANGED <<last_check, notification_sent>>

\* INSERT INTO orders (user_id, order_id, phone_number, price, expires_at);
\* status defaults to 'active', sms_content and completed_at to NULL
save_order(u, o, exp, ok) ==
    IF ok
    THEN /\ status' = [status EXCEPT ![o] = "active"]
         /\ owner' = [owner EXCEPT ![o] = u]
         /\ expires_at' = [expires_at EXCEPT ![o] = exp]
    ELSE UNCHANGED <<status, owner, expires_at>>

(* ------------------- smspool_api.py: the client session --------------- *)

\* get_session without the test: every request creates a ClientSession
get_session_Always ==
    /\ session' = "open"
    /\ opened' = opened + 1

\* _get_session, called by _make_request before every request: a
\* ClientSession is created when there is none or the one held is closed.
\* There is no await between the test and the assignment.
get_session ==
    IF session \in {"none", "closed"}
    THEN /\ session' = "open"
         /\ opened' = opened + 1
    ELSE UNCHANGED <<session, opened>>

\* SMSPoolAPI.close: if self.session and not self.session.closed
close ==
    IF session = "open"
    THEN /\ session' = "closed"
         /\ opened' = opened - 1
    ELSE UNCHANGED <<session, opened>>

(* ------------------ monitoring.py: the order monitor ------------------ *)

\* the handler of one order has returned (or raised into the loop's
\* except Exception): the loop goes on to asyncio.sleep(1)
O_AfterOrder == o_pc' = "sleep1"

\* O_Begin without "if not user: return": the request is sent for an order
\* whose owner was not found
O_Begin_CallsAnyway(o, rest, failed) ==
    \E ok \in StoreOutcomes :
        /\ o_cur' = o
        /\ o_queue' = rest
        /\ get_session
        /\ o_pc' = IF LocalNow > expires_at[o] THEN "cancel" ELSE "check_sms"
        /\ o_failed' = IF ~get_user(owner[o], ok) THEN failed \cup {o} ELSE failed

\* O_Begin with the code check ahead of the expiry test
O_Begin_ChecksFirst(o, rest, failed) ==
    \E ok \in StoreOutcomes :
        /\ o_cur' = o
        /\ o_queue' = rest
        /\ IF ~get_user(owner[o], ok)
           THEN /\ O_AfterOrder
                /\ o_failed' = failed \cup {o}
                /\ UNCHANGED <<session, opened>>
           ELSE /\ o_pc' = "check_sms"
                /\ o_failed' = failed
                /\ get_session

\* O_Begin with the missing-user return leaving the for loop instead of the
\* handler: the sweep ends at the order that failed
O_Begin_LeavesSweep(o, rest, failed) ==
    \E ok \in StoreOutcomes :
        /\ o_cur' = o
        /\ o_queue' = rest
        /\ IF ~get_user(owner[o], ok)
           THEN /\ o_pc' = "sleepN"
                /\ o_failed' = failed \cup {o}
                /\ UNCHANGED <<session, opened>>
           ELSE /\ o_pc' = IF LocalNow > expires_at[o] THEN "cancel" ELSE "check_sms"
                /\ o_failed' = failed
                /\ get_session

\* _check_order_sms(o) and, for an expired order, _handle_expired_order(o),
\* up to the first await; failed is o_failed before this order
O_Begin(o, rest, failed) ==
    \E ok \in StoreOutcomes :
        /\ o_cur' = o
        /\ o_queue' = rest
        /\ IF ~get_user(owner[o], ok)
           THEN /\ O_AfterOrder
                /\ o_failed' = failed \cup {o}
                /\ UNCHANGED <<session, opened>>
           ELSE /\ o_pc' = IF LocalNow > expires_at[o] THEN "cancel" ELSE "check_sms"
                /\ o_failed' = failed
                /\ get_session

\* asyncio.sleep(30): the sweep is over
O_EndSweep ==
    /\ o_pc' = "sleepN"
    /\ o_wake' = now + MONITORING_INTERVAL

\* while self.is_running: get_all_active_orders(); for order in ...: first order
O_SweepStart ==
    /\ o_pc \in {"new", "sleepN"}
    /\ ~o_cancel
    /\ o_pc = "sleepN" => now >= o_wake
    /\ IF ~is_running
       THEN /\ o_pc' = "done"
            /\ UNCHANGED <<o_queue, o_cur, o_wake, o_failed, session, opened>>
       ELSE \E ok \in StoreOutcomes :
            LET list == get_all_active_orders(ok)
            IN IF list = << >>
               THEN /\ O_EndSweep
                    /\ o_failed' = IF ok THEN {} ELSE {0}
                    /\ o_queue' = << >>
                    /\ UNCHANGED <<o_cur, session, opened>>
               ELSE /\ O_Begin(Head(list), Tail(list), {})
                    /\ UNCHANGED o_wake
    /\ UNCHANGED <<now, tz, faults, start_limit, storeVars, svcVars, aVars, o_cancel,
                   termNotif, refunds, a_failed,
                   post_pc, unsent>>

\* O_NextOrder not waiting for send_message to return: the next order is
\* taken up while the notification of the one before is still in flight
O_NextOrder_Eager ==
    /\ o_pc \in {"sleep1", "send"}
    /\ ~o_cancel
    /\ IF o_queue = << >>
       THEN /\ O_EndSweep
            /\ UNCHANGED <<o_queue, o_cur, o_failed, session, opened>>
       ELSE /\ O_Begin(Head(o_queue), Tail(o_queue), o_failed)
            /\ UNCHANGED o_wake
    /\ UNCHANGED <<now, tz, faults, start_limit, storeVars, svcVars, aVars, o_cancel,
                   termNotif, refunds, a_failed,
                   post_pc, unsent>>

\* asyncio.sleep(1) returns: the next order, or the end of the sweep
O_NextOrder ==
    /\ o_pc = "sleep1"
    /\ ~o_cancel
    /\ IF o_queue = << >>
       THEN /\ O_EndSweep
            /\ UNCHANGED <<o_queue, o_cur, o_failed, session, opened>>
       ELSE /\ O_Begin(Head(o_queue), Tail(o_queue), o_failed)
            /\ UNCHANGED o_wake
    /\ UNCHANGED <<now, tz, faults, start_limit, storeVars, svcVars, aVars, o_cancel,
                   termNotif, refunds, a_failed,
                   post_pc, unsent>>

\* a terminal notification: bot.send_message is called
O_Notify(o) ==
    /\ termNotif' = [termNotif EXCEPT ![o] = @ + 1]
    /\ o_pc' = "send"

\* O_CheckSmsReturn with the notification sent and update_order_sms left out
O_CheckSmsReturn_NotifiesFirst ==
    /\ o_pc = "check_sms"
    /\ ~o_cancel
    /\ \E resp \in SmsResponses, ok \in StoreOutcomes :
        LET r == check_sms(resp) IN
        IF r.received
        THEN /\ O_Notify(o_cur)
             /\ o_failed' = IF ok THEN o_failed ELSE o_failed \cup {o_cur}
             /\ UNCHANGED <<status, sms_content, completed_at>>
        ELSE /\ O_AfterOrder
             /\ o_failed' = IF resp = "none" THEN o_failed \cup {o_cur} ELSE o_failed
             /\ UNCHANGED <<status, sms_content, completed_at, termNotif>>
    /\ UNCHANGED <<now, tz, faults, start_limit, userRow, balance, is_monitoring, notification_sent,
                   last_check, owner, expires_at, sold, svcVars, aVars,
                   o_queue, o_cur, o_wake, o_cancel,
                   refunds, a_failed,
                   apiVars, unsent>>

\* O_CheckSmsReturn giving an order up when no code has come: the status is
\* written "expired"
O_CheckSmsReturn_GivesUp ==
    /\ o_pc = "check_sms"
    /\ ~o_cancel
    /\ \E resp \in SmsResponses, ok \in StoreOutcomes :
        LET r == check_sms(resp) IN
        IF r.received
        THEN /\ update_order_sms(o_cur, r.sms_content, ok)
             /\ O_Notify(o_cur)
             /\ o_failed' = IF ok THEN o_failed ELSE o_failed \cup {o_cur}
        ELSE /\ O_AfterOrder
             /\ o_failed' = IF resp = "none" THEN o_failed \cup {o_cur} ELSE o_failed
             /\ update_order_status(o_cur, "expired", ok)
             /\ UNCHANGED <<sms_content, termNotif>>
    /\ UNCHANGED <<now, tz, faults, start_limit, userRow, balance, is_monitoring, notification_sent,
                   last_check, owner, expires_at, sold, svcVars, aVars,
                   o_queue, o_cur, o_wake, o_cancel,
                   refunds, a_failed,
                   apiVars, unsent>>

\* check_sms returns; on a received code _handle_sms_received up to send_message
O_CheckSmsReturn ==
    /\ o_pc = "check_sms"
    /\ ~o_cancel
    /\ \E resp \in SmsResponses, ok \in StoreOutcomes :
        LET r == check_sms(resp) IN
        IF r.received
        THEN /\ update_order_sms(o_cur, r.sms_content, ok)
             /\ O_Notify(o_cur)
             /\ o_failed' = IF ok THEN o_failed ELSE o_failed \cup {o_cur}
        ELSE /\ O_AfterOrder
             /\ o_failed' = IF resp = "none" THEN o_failed \cup {o_cur} ELSE o_failed
             /\ UNCHANGED <<status, sms_content, completed_at, termNotif>>
    /\ UNCHANGED <<now, tz, faults, start_limit, userRow, balance, is_monitoring, notification_sent,
                   last_check, owner, expires_at, sold, svcVars, aVars,
                   o_queue, o_cur, o_wake, o_cancel,
                   refunds, a_failed,
                   apiVars, unsent>>

\* O_CancelReturn with 'refunded' written whatever cancel_order returned
O_CancelReturn_AlwaysRefunded ==
    /\ o_pc = "cancel"
    /\ ~o_cancel
    /\ \E resp \in CancelResponses, ok \in StoreOutcomes :
        LET r == cancel_order(resp) IN
        /\ o_failed' = IF ok /\ resp # "none" THEN o_failed ELSE o_failed \cup {o_cur}
        /\ IF r.success
           THEN /\ refunds' = [refunds EXCEPT ![o_cur] = @ + 1]
                /\ update_order_status(o_cur, "refunded", ok)
                /\ o_pc' = "balance"
                /\ get_session
                /\ UNCHANGED termNotif
           ELSE /\ update_order_status(o_cur, "refunded", ok)
                /\ O_Notify(o_cur)
                /\ UNCHANGED <<refunds, session, opened>>
    /\ UNCHANGED <<now, tz, faults, start_limit, userRow, balance, is_monitoring, notification_sent,
                   last_check, owner, expires_at, sms_content, sold, svcVars, aVars,
                   o_queue, o_cur, o_wake, o_cancel,
                   a_failed,
                   post_pc, unsent>>

\* O_CancelReturn with a failed status write raising out of the for loop:
\* the sweep ends at that order
O_CancelReturn_WriteFailureFatal ==
    /\ o_pc = "cancel"
    /\ ~o_cancel
    /\ \E resp \in CancelResponses, ok \in StoreOutcomes :
        LET r == cancel_order(resp) IN
        /\ o_failed' = IF ok /\ resp # "none" THEN o_failed ELSE o_failed \cup {o_cur}
        /\ IF r.success
           THEN /\ refunds' = [refunds EXCEPT ![o_cur] = @ + 1]
                /\ update_order_status(o_cur, "refunded", ok)
                /\ IF ok THEN o_pc' = "balance" /\ get_session
                         ELSE o_pc' = "sleepN" /\ UNCHANGED <<session, opened>>
                /\ UNCHANGED termNotif
           ELSE /\ update_order_status(o_cur, "expired", ok)
                /\ O_Notify(o_cur)
                /\ UNCHANGED <<refunds, session, opened>>
    /\ UNCHANGED <<now, tz, faults, start_limit, userRow, balance, is_monitoring, notification_sent,
                   last_check, owner, expires_at, sms_content, sold, svcVars, aVars,
                   o_queue, o_cur, o_wake, o_cancel,
                   a_failed,
                   post_pc, unsent>>

\* cancel_order returns: refunded and on to get_balance, or expired and notified
O_CancelReturn ==
    /\ o_pc = "cancel"
    /\ ~o_cancel
    /\ \E resp \in CancelResponses, ok \in StoreOutcomes :
        LET r == cancel_order(resp) IN
        /\ o_failed' = IF ok /\ resp # "none" THEN o_failed ELSE o_failed \cup {o_cur}
        /\ IF r.success
           THEN /\ refunds' = [refunds EXCEPT ![o_cur] = @ + 1]
                /\ update_order_status(o_cur, "refunded", ok)
                /\ o_pc' = "balance"
                /\ get_session
                /\ UNCHANGED termNotif
           ELSE /\ update_order_status(o_cur, "expired", ok)
                /\ O_Notify(o_cur)
                /\ UNCHANGED <<refunds, session, opened>>
    /\ UNCHANGED <<now, tz, faults, start_limit, userRow, balance, is_monitoring, notification_sent,
                   last_check, owner, expires_at, sms_content, sold, svcVars, aVars,
                   o_queue, o_cur, o_wake, o_cancel,
                   a_failed,
                   post_pc, unsent>>

\* O_BalanceReturn without "if balance_result['success']": the balance of
\* the result is written whatever get_balance returned
O_BalanceReturn_WritesAnyway ==
    /\ o_pc = "balance"
    /\ ~o_cancel
    /\ \E resp \in BalanceResponses, ok \in StoreOutcomes :
        LET r == get_balance(resp) IN
        /\ update_user_balance(owner[o_cur], r.balance, ok)
        /\ o_failed' = IF r.success /\ ok THEN o_failed ELSE o_failed \cup {o_cur}
        /\ O_Notify(o_cur)
    /\ UNCHANGED <<now, tz, faults, start_limit, userRow, is_monitoring, notification_sent,
                   last_check, status, owner, expires_at, sms_content, completed_at,
                   sold, svcVars, aVars,
                   o_queue, o_cur, o_wake, o_cancel,
                   refunds, a_failed,
                   apiVars, unsent>>

\* get_balance returns: the cached balance is written on success, then the
\* refund notification is sent
O_BalanceReturn ==
    /\ o_pc = "balance"
    /\ ~o_cancel
    /\ \E resp \in BalanceResponses, ok \in StoreOutcomes :
        LET r == get_balance(resp) IN
        /\ IF r.success
           THEN update_user_balance(owner[o_cur], r.balance, ok)
           ELSE UNCHANGED balance
        /\ o_failed' = IF r.success /\ ok THEN o_failed ELSE o_failed \cup {o_cur}
        /\ O_Notify(o_cur)
    /\ UNCHANGED <<now, tz, faults, start_limit, userRow, is_monitoring, notification_sent,
                   last_check, status, owner, expires_at, sms_content, completed_at,
                   sold, svcVars, aVars,
                   o_queue, o_cur, o_wake, o_cancel,
                   refunds, a_failed,
                   apiVars, unsent>>

\* bot.send_message returns or raises; the handler logs and returns
O_SendReturn ==
    /\ o_pc = "send"
    /\ ~o_cancel
    /\ \E sent \in SendOutcomes :
        /\ O_AfterOrder
        /\ o_failed' = IF sent THEN o_failed ELSE o_failed \cup {o_cur}
        /\ unsent' = IF sent THEN unsent ELSE unsent \cup {<<"order", o_cur>>}
    /\ UNCHANGED <<now, tz, faults, start_limit, storeVars, svcVars, aVars,
                   o_queue, o_cur, o_wake, o_cancel,
                   termNotif, refunds, a_failed,
                   apiVars>>

\* task.cancel() takes effect: CancelledError is raised at the await the task
\* is suspended at, passes every "except Exception" and ends the loop.  A
\* cancel request in flight may or may not have been carried out remotely.
O_Cancelled ==
    /\ o_cancel
    /\ o_pc \notin {"none", "done"}
    /\ o_pc' = "done"
    /\ o_cancel' = FALSE
    /\ \E carried \in BOOLEAN :
        refunds' = IF o_pc = "cancel" /\ carried
                   THEN [refunds EXCEPT ![o_cur] = @ + 1] ELSE refunds
    /\ UNCHANGED <<now, tz, faults, start_limit, storeVars, svcVars, aVars,
                   o_queue, o_cur, o_wake,
                   termNotif, a_failed, o_failed,
                   apiVars, unsent>>

\* task.cancel() takes effect while _make_request reads the body of an HTTP
\* 422 answer: the bare "except:" around response.json() catches the
\* CancelledError, _make_request returns None, and the handler and the loop
\* go on as after a failed request; the cancellation is used up
O_CancelSwallowed ==
    /\ o_cancel
    /\ o_pc \in {"check_sms", "cancel", "balance"}
    /\ o_cancel' = FALSE
    /\ o_failed' = o_failed \cup {o_cur}
    /\ \E ok \in StoreOutcomes :
        CASE o_pc = "check_sms" ->
                /\ O_AfterOrder
                /\ UNCHANGED <<status, completed_at, termNotif>>
          [] o_pc = "cancel" ->
                /\ update_order_status(o_cur, "expired", ok)
                /\ O_Notify(o_cur)
          [] o_pc = "balance" ->
                /\ O_Notify(o_cur)
                /\ UNCHANGED <<status, completed_at>>
    /\ UNCHANGED <<now, tz, faults, start_limit, userRow, balance, is_monitoring, notification_sent,
                   last_check, owner, expires_at, sms_content, sold, svcVars, aVars,
                   o_queue, o_cur, o_wake,
                   refunds, a_failed,
                   apiVars, unsent>>

(* --------------- monitoring.py: the availability monitor -------------- *)

\* the handler of one user has returned: the loop goes on to asyncio.sleep(1)
A_AfterUser == a_pc' = "sleep1"

\* _check_service_for_user(u) up to the stock check; failed is a_failed
\* before this user
A_Begin(u, rest, failed) ==
    \E ok \in StoreOutcomes :
        /\ a_cur' = u
        /\ a_queue' = rest
        /\ a_failed' = IF ok THEN failed ELSE failed \cup {u}
        /\ IF get_active_orders(u, ok) # {}
           THEN /\ A_AfterUser
                /\ UNCHANGED <<session, opened>>
           ELSE /\ a_pc' = "stock"
                /\ get_session

\* A_EndSweep with the loop left after one sweep (no "while self.is_running")
A_EndSweep_Once ==
    /\ a_pc' = "done"
    /\ a_wake' = now + MONITORING_INTERVAL

\* asyncio.sleep(Config.MONITORING_INTERVAL): the sweep is over
A_EndSweep ==
    /\ a_pc' = "sleepN"
    /\ a_wake' = now + MONITORING_INTERVAL

\* while self.is_running: get_all_active_users(); for user in ...: first user
A_SweepStart ==
    /\ a_pc \in {"new", "sleepN"}
    /\ ~a_cancel
    /\ a_pc = "sleepN" => now >= a_wake
    /\ IF ~is_running
       THEN /\ a_pc' = "done"
            /\ UNCHANGED <<a_queue, a_cur, a_wake, a_failed, session, opened>>
       ELSE \E ok \in StoreOutcomes :
            LET list == get_all_active_users(ok)
            IN IF list = << >>
               THEN /\ A_EndSweep
                    /\ a_failed' = IF ok THEN {} ELSE {0}
                    /\ a_queue' = << >>
                    /\ UNCHANGED <<a_cur, session, opened>>
               ELSE /\ A_Begin(Head(list), Tail(list), {})
                    /\ UNCHANGED a_wake
    /\ UNCHANGED <<now, tz, faults, start_limit, storeVars, svcVars, oVars, a_cancel,
                   termNotif, refunds, o_failed,
                   post_pc, unsent>>

\* asyncio.sleep(1) returns: the next user, or the end of the sweep
A_NextUser ==
    /\ a_pc = "sleep1"
    /\ ~a_cancel
    /\ IF a_queue = << >>
       THEN /\ A_EndSweep
            /\ UNCHANGED <<a_queue, a_cur, a_failed, session, opened>>
       ELSE /\ A_Begin(Head(a_queue), Tail(a_queue), a_failed)
            /\ UNCHANGED a_wake
    /\ UNCHANGED <<now, tz, faults, start_limit, storeVars, svcVars, oVars, a_cancel,
                   termNotif, refunds, o_failed,
                   post_pc, unsent>>

\* if availability['available'] and availability['count'] > 0
ShouldNotify(u, av) == av.available /\ av.count > 0

\* A_StockReturn with the cursor written before the notification is sent
A_StockReturn_WritesFirst ==
    /\ a_pc = "stock"
    /\ ~a_cancel
    /\ \E resp \in StockResponses, ok \in StoreOutcomes :
        LET av == check_service_availability(resp) IN
        IF ShouldNotify(a_cur, av)
        THEN /\ a_pc' = "send"
             /\ update_monitoring_status(a_cur, LocalNow, TRUE, ok)
             /\ UNCHANGED <<a_failed, unsent>>
        ELSE /\ update_monitoring_status(a_cur, LocalNow, FALSE, ok)
             /\ A_AfterUser
             /\ unsent' = unsent \ {<<"user", a_cur>>}
             /\ a_failed' = IF ok /\ resp.k \in {"amount", "stock"} THEN a_failed
                            ELSE a_failed \cup {a_cur}
    /\ UNCHANGED <<now, tz, faults, start_limit, userRow, balance, is_monitoring,
                   status, owner, expires_at, sms_content, completed_at, sold,
                   svcVars, oVars, a_queue, a_cur, a_wake, a_cancel,
                   termNotif, refunds, o_failed,
                   apiVars>>

\* A_StockReturn clearing the cached balance of a user whose stock check
\* was not positive
A_StockReturn_WritesBalance ==
    /\ a_pc = "stock"
    /\ ~a_cancel
    /\ \E resp \in StockResponses, ok \in StoreOutcomes :
        LET av == check_service_availability(resp) IN
        IF ShouldNotify(a_cur, av)
        THEN /\ a_pc' = "send"
             /\ UNCHANGED <<last_check, notification_sent, a_failed, unsent, balance>>
        ELSE /\ update_monitoring_status(a_cur, LocalNow, FALSE, ok)
             /\ A_AfterUser
             /\ unsent' = unsent \ {<<"user", a_cur>>}
             /\ balance' = [balance EXCEPT ![a_cur] = 0]
             /\ a_failed' = IF ok /\ resp.k \in {"amount", "stock"} THEN a_failed
                            ELSE a_failed \cup {a_cur}
    /\ UNCHANGED <<now, tz, faults, start_limit, userRow, is_monitoring,
                   status, owner, expires_at, sms_content, completed_at, sold,
                   svcVars, oVars, a_queue, a_cur, a_wake, a_cancel,
                   termNotif, refunds, o_failed,
                   apiVars>>

\* check_service_availability returns: the notification is sent, or the
\* cursor is written with notification_sent = False
A_StockReturn ==
    /\ a_pc = "stock"
    /\ ~a_cancel
    /\ \E resp \in StockResponses, ok \in StoreOutcomes :
        LET av == check_service_availability(resp) IN
        IF ShouldNotify(a_cur, av)
        THEN /\ a_pc' = "send"
             /\ UNCHANGED <<last_check, notification_sent, a_failed, unsent>>
        ELSE /\ update_monitoring_status(a_cur, LocalNow, FALSE, ok)
             /\ A_AfterUser
             /\ unsent' = unsent \ {<<"user", a_cur>>}
             /\ a_failed' = IF ok /\ resp.k \in {"amount", "stock"} THEN a_failed
                            ELSE a_failed \cup {a_cur}
    /\ UNCHANGED <<now, tz, faults, start_limit, userRow, balance, is_monitoring,
                   status, owner, expires_at, sms_content, completed_at, sold,
                   svcVars, oVars, a_queue, a_cur, a_wake, a_cancel,
                   termNotif, refunds, o_failed,
                   apiVars>>

\* _send_availability_notification returns (it logs a failed send), then
\* update_monitoring_status(user_id, now, notification_sent=True)
A_SendReturn ==
    /\ a_pc = "send"
    /\ ~a_cancel
    /\ \E sent \in SendOutcomes, ok \in StoreOutcomes :
        /\ update_monitoring_status(a_cur, LocalNow, TRUE, ok)
        /\ A_AfterUser
        /\ a_failed' = IF sent /\ ok THEN a_failed ELSE a_failed \cup {a_cur}
        /\ unsent' = IF sent THEN unsent \ {<<"user", a_cur>>}
                           ELSE unsent \cup {<<"user", a_cur>>}
    /\ UNCHANGED <<now, tz, faults, start_limit, userRow, balance, is_monitoring,
                   status, owner, expires_at, sms_content, completed_at, sold,
                   svcVars, oVars, a_queue, a_cur, a_wake, a_cancel,
                   termNotif, refunds, o_failed,
                   apiVars>>

\* task.cancel() takes effect in monitoring_task
A_Cancelled ==
    /\ a_cancel
    /\ a_pc \notin {"none", "done"}
    /\ a_pc' = "done"
    /\ a_cancel' = FALSE
    /\ UNCHANGED <<now, tz, faults, start_limit, storeVars, svcVars, oVars,
                   a_queue, a_cur, a_wake,
                   histVars,
                   apiVars, unsent>>

\* task.cancel() takes effect in monitoring_task while _make_request reads
\* the body of an HTTP 422 answer: the CancelledError is caught there, the
\* stock check returns "not available" and the loop goes on
A_CancelSwallowed ==
    /\ a_cancel
    /\ a_pc = "stock"
    /\ a_cancel' = FALSE
    /\ a_failed' = a_failed \cup {a_cur}
    /\ \E ok \in StoreOutcomes :
        update_monitoring_status(a_cur, LocalNow, FALSE, ok)
    /\ A_AfterUser
    /\ unsent' = unsent \ {<<"user", a_cur>>}
    /\ UNCHANGED <<now, tz, faults, start_limit, userRow, balance, is_monitoring,
                   status, owner, expires_at, sms_content, completed_at, sold,
                   svcVars, oVars, a_queue, a_cur, a_wake,
                   termNotif, refunds, o_failed,
                   apiVars>>

(* ------------- monitoring.py: start_monitoring, stop_monitoring ------- *)

\* start_monitoring without "if self.is_running: return"
start_monitoring_Unguarded ==
    /\ stop_pc = "idle"
    /\ post_pc = "up"
    /\ starts < start_limit
    /\ is_running' = TRUE
    /\ starts' = starts + 1
    /\ a_pc' = "new"
    /\ o_pc' = "new"
    /\ UNCHANGED <<now, tz, faults, start_limit, storeVars, stop_pc,
                   a_queue, a_cur, a_wake, a_cancel, o_queue, o_cur, o_wake, o_cancel,
                   histVars,
                   apiVars, unsent>>

start_monitoring ==
    /\ stop_pc = "idle"
    /\ post_pc = "up"
    /\ IF is_running
       THEN UNCHANGED <<is_running, starts, a_pc, o_pc>>
       ELSE /\ starts < start_limit
            /\ is_running' = TRUE
            /\ starts' = starts + 1
            /\ a_pc' = "new"
            /\ o_pc' = "new"
    /\ UNCHANGED <<now, tz, faults, start_limit, storeVars, stop_pc,
                   a_queue, a_cur, a_wake, a_cancel, o_queue, o_cur, o_wake, o_cancel,
                   histVars,
                   apiVars, unsent>>

\* StopOrderTask without the cancel and the await: stop returns while the
\* order loop is still running
StopOrderTask_FireAndForget ==
    /\ stop_pc' = "idle"
    /\ UNCHANGED o_cancel

\* StopOrderTask with the await of a finished task never returning (the
\* task object is tested for being done by nobody): stop waits on it
StopOrderTask_AwaitsFinished ==
    /\ stop_pc' = "awaitO"
    /\ o_cancel' = TRUE

\* self.sms_checking_task.cancel(); await self.sms_checking_task
StopOrderTask ==
    IF o_pc \in {"none", "done"}
    THEN /\ stop_pc' = "idle"
         /\ UNCHANGED o_cancel
    ELSE /\ stop_pc' = "awaitO"
         /\ o_cancel' = TRUE

\* self.is_running = False; self.monitoring_task.cancel(); await self.monitoring_task
stop_monitoring ==
    /\ stop_pc = "idle"
    /\ is_running' = FALSE
    /\ IF a_pc \in {"none", "done"}
       THEN /\ StopOrderTask
            /\ UNCHANGED a_cancel
       ELSE /\ stop_pc' = "awaitA"
            /\ a_cancel' = TRUE
            /\ UNCHANGED o_cancel
    /\ UNCHANGED <<now, tz, faults, start_limit, storeVars, starts,
                   a_pc, a_queue, a_cur, a_wake, o_pc, o_queue, o_cur, o_wake,
                   histVars,
                   apiVars, unsent>>

\* await self.monitoring_task returns
StopAwaitA ==
    /\ stop_pc = "awaitA"
    /\ a_pc = "done"
    /\ StopOrderTask
    /\ UNCHANGED <<now, tz, faults, start_limit, storeVars, is_running, starts, aVars,
                   o_pc, o_queue, o_cur, o_wake, histVars,
                   apiVars, unsent>>

\* await self.sms_checking_task returns
StopAwaitO ==
    /\ stop_pc = "awaitO"
    /\ o_pc = "done"
    /\ stop_pc' = "idle"
    /\ UNCHANGED <<now, tz, faults, start_limit, storeVars, is_running, starts, aVars, oVars, histVars,
                   apiVars, unsent>>

\* main.py post_stop, after "await monitoring.stop_monitoring()" has
\* returned: await smspool_api.close()
post_stop ==
    /\ post_pc = "up"
    /\ ~is_running
    /\ stop_pc = "idle"
    /\ close
    /\ post_pc' = "down"
    /\ UNCHANGED <<now, tz, faults, start_limit, storeVars, svcVars, aVars, oVars, histVars, unsent>>

(* ------------------------ main.py and environment --------------------- *)

\* handle_confirm_rent: rent_number returns, save_order
handle_confirm_rent(u) ==
    /\ userRow[u]
    /\ sold < MaxOrders
    /\ post_pc = "up"
    /\ get_session
    /\ \E resp \in RentResponses, ok \in StoreOutcomes :
        LET r == rent_number(resp) IN
        IF r.success
        THEN /\ sold' = sold + 1
             /\ save_order(u, sold + 1, LocalNow + r.expires_in, ok)
        ELSE UNCHANGED <<sold, status, owner, expires_at>>
    /\ UNCHANGED <<now, tz, faults, start_limit, userRow, balance, is_monitoring, notification_sent,
                   last_check, sms_content, completed_at, svcVars, aVars, oVars, histVars,
                   post_pc, unsent>>

\* INSERT OR REPLACE INTO users ...; INSERT OR REPLACE INTO
\* monitoring_status (user_id, is_monitoring, last_check) VALUES (?, 1,
\* CURRENT_TIMESTAMP): notification_sent takes its default 0
save_user(u, b, ok) ==
    IF ok
    THEN /\ userRow' = [userRow EXCEPT ![u] = TRUE]
         /\ balance' = [balance EXCEPT ![u] = b]
         /\ is_monitoring' = [is_monitoring EXCEPT ![u] = TRUE]
         /\ last_check' = [last_check EXCEPT ![u] = now]
         /\ notification_sent' = [notification_sent EXCEPT ![u] = FALSE]
    ELSE UNCHANGED <<userRow, balance, is_monitoring, last_check, notification_sent>>

\* message_handler with a well-formed key: a user get_user does not find
\* has the key verified and, when it is valid, is saved
message_handler(u) ==
    /\ post_pc = "up"
    /\ \E found \in StoreOutcomes, resp \in BalanceResponses, ok \in StoreOutcomes :
        /\ ~get_user(u, found)
        /\ get_session
        /\ LET v == verify_api_key(resp) IN
           IF v.valid
           THEN save_user(u, v.balance, ok)
           ELSE UNCHANGED <<userRow, balance, is_monitoring, last_check, notification_sent>>
    /\ UNCHANGED <<now, tz, faults, start_limit,
                   status, owner, expires_at, sms_content, completed_at, sold,
                   svcVars, aVars, oVars, histVars, post_pc, unsent>>

\* balance_command (and, alike, start_command for a known user and
\* handle_check_balance): get_balance returns and the cached balance is
\* written when it succeeded
balance_command(u) ==
    /\ post_pc = "up"
    /\ \E found \in StoreOutcomes, resp \in BalanceResponses, ok \in StoreOutcomes :
        LET r == get_balance(resp) IN
        /\ get_user(u, found)
        /\ get_session
        /\ IF r.success
           THEN update_user_balance(u, r.balance, ok)
           ELSE UNCHANGED balance
    /\ UNCHANGED <<now, tz, faults, start_limit, userRow, is_monitoring, notification_sent,
                   last_check, status, owner, expires_at, sms_content, completed_at, sold,
                   svcVars, aVars, oVars, histVars, post_pc, unsent>>

Tick ==
    /\ now < MaxTime
    /\ now' = now + 1
    /\ UNCHANGED <<tz, faults, start_limit, storeVars, svcVars, aVars, oVars, histVars,
                   apiVars, unsent>>

(* --------------------------- specifications --------------------------- *)

\* the state after construction: db = Database(), smspool_api = SMSPoolAPI(),
\* MonitoringService(bot); the users are registered, the orders table holds
\* what an earlier run of the bot left in the sqlite file.
\* FS: the fault sets, ZS: the UTC offsets the environment may have
InitTables(FS, ZS) ==
    /\ now = 0
    /\ tz \in ZS
    /\ faults \in FS
    /\ balance = [u \in Users |-> 1]
    /\ notification_sent = [u \in Users |-> FALSE]
    /\ last_check = [u \in Users |-> 0]
    /\ sms_content = [o \in OrderIds |-> "NULL"]
    /\ completed_at = [o \in OrderIds |-> NoTime]
    /\ stop_pc = "idle"
    /\ a_queue = << >> /\ a_cur = 0 /\ a_wake = 0 /\ a_cancel = FALSE
    /\ o_queue = << >> /\ o_cur = 0 /\ o_wake = 0 /\ o_cancel = FALSE
    /\ termNotif = [o \in OrderIds |-> 0]
    /\ refunds = [o \in OrderIds |-> 0]
    /\ a_failed = {}
    /\ o_failed = {}
    /\ unsent = {}
    /\ session = "none" /\ opened = 0 /\ post_pc = "up"

\* every user has registered: save_user wrote the users row and the
\* monitoring_status row with is_monitoring = 1
InitWith(FS, ZS) ==
    /\ InitTables(FS, ZS)
    /\ userRow = [u \in Users |-> TRUE]
    /\ is_monitoring = [u \in Users |-> TRUE]

\* the orders table holds n rentals, bought just now with the quoted TTL,
\* one user after the other
Stored(n) ==
    /\ sold = n
    /\ status = [o \in OrderIds |-> IF o <= n THEN "active" ELSE "none"]
    /\ owner = [o \in OrderIds |-> IF o <= n THEN ((o - 1) % NumUsers) + 1 ELSE 0]
    /\ expires_at = [o \in OrderIds |-> IF o <= n THEN tz + QUOTED_EXPIRES_IN ELSE NoTime]

\* the orders table holds n rentals of an earlier run: the first passed its
\* expires_at one tick ago on the process clock, the others were bought
\* just before the restart
StoredOld(n) ==
    /\ sold = n
    /\ status = [o \in OrderIds |-> IF o <= n THEN "active" ELSE "none"]
    /\ owner = [o \in OrderIds |-> IF o <= n THEN ((o - 1) % NumUsers) + 1 ELSE 0]
    /\ expires_at = [o \in OrderIds |-> IF o > n THEN NoTime
                                          ELSE IF o = 1 THEN tz - 1
                                          ELSE tz + QUOTED_EXPIRES_IN]

\* main.py post_init: start_monitoring() has run before any handler does
Started ==
    /\ is_running = TRUE /\ starts = 1 /\ a_pc = "new" /\ o_pc = "new"
    /\ start_limit = MaxStarts

NotStarted ==
    /\ is_running = FALSE /\ starts = 0 /\ a_pc = "none" /\ o_pc = "none"
    /\ start_limit = MaxStarts

\* as NotStarted, in a run in which the application starts the service
\* once more after a stop
Restartable ==
    /\ is_running = FALSE /\ starts = 0 /\ a_pc = "none" /\ o_pc = "none"
    /\ start_limit = MaxStarts + 1

AvailSteps ==
    \/ A_SweepStart \/ A_NextUser \/ A_StockReturn \/ A_SendReturn

OrderSteps ==
    \/ O_SweepStart \/ O_NextOrder \/ O_CheckSmsReturn \/ O_CancelReturn
    \/ O_BalanceReturn \/ O_SendReturn

LifeSteps ==
    \/ start_monitoring \/ stop_monitoring \/ StopAwaitA \/ StopAwaitO
    \/ A_Cancelled \/ O_Cancelled
    \/ A_CancelSwallowed \/ O_CancelSwallowed
    \/ post_stop

\* one kind of failure, or none, in a behaviour
OneFault == {{}} \cup {{f} : f \in AllFaults}

(* The whole service from construction to stop: both monitors interleaved, *)
(* over the rentals an earlier run left active, the process clock on UTC.  *)
Init == InitWith(OneFault, {0}) /\ NotStarted /\ Stored(MaxOrders)

Next ==
    \/ AvailSteps
    \/ OrderSteps
    \/ LifeSteps
    \/ Tick

Spec == Init /\ [][Next]_vars

(* The order monitor while the service runs, with purchases, with and      *)
(* without failures, in every time zone.  The availability monitor writes  *)
(* none of the variables the order monitor reads (A_* leave orders, users  *)
(* and balances unchanged), so its steps are left out.                     *)
InitOrders == InitWith(OneFault \cup {AllFaults}, TzOffsets) /\ Started /\ Stored(0)

NextOrders ==
    \/ OrderSteps
    \/ \E u \in Users : handle_confirm_rent(u)
    \/ Tick

SpecOrders == InitOrders /\ [][NextOrders]_vars

(* The availability monitor while the service runs, with purchases.        *)
InitAvail == InitWith(OneFault \cup {AllFaults}, {0}) /\ Started /\ Stored(0)

NextAvail ==
    \/ AvailSteps
    \/ \E u \in Users : handle_confirm_rent(u)
    \/ Tick

SpecAvail == InitAvail /\ [][NextAvail]_vars

(* The availability monitor over a users table in which some users have  *)
(* not registered and some registered users have monitoring switched off, *)
(* with registrations and purchases.                                      *)
InitFlags ==
    /\ InitTables(OneFault, {0})
    /\ userRow \in [Users -> BOOLEAN]
    /\ is_monitoring \in {f \in [Users -> BOOLEAN] : \A u \in Users : f[u] => userRow[u]}
    /\ Started /\ Stored(0)

NextFlags ==
    \/ AvailSteps
    \/ \E u \in Users : message_handler(u)
    \/ \E u \in Users : handle_confirm_rent(u)
    \/ Tick

SpecFlags == InitFlags /\ [][NextFlags]_vars

(* The whole service without failures, started, stopped and started again. *)
InitLife == InitWith({{}}, {0}) /\ Restartable /\ Stored(MaxOrders)

SpecLife == InitLife /\ [][Next]_vars

(* The order monitor after a restart, the process clock ahead of UTC: the  *)
(* store holds an order that expired while the bot was down and orders     *)
(* still within their TTL.                                                 *)
InitExpired == InitWith(OneFault, {TzSkew}) /\ Started /\ StoredOld(MaxOrders)

NextExpired ==
    \/ OrderSteps
    \/ Tick

SpecExpired == InitExpired /\ [][NextExpired]_vars

(* As SpecExpired, with the users asking for their balance.                *)
NextBalance ==
    \/ OrderSteps
    \/ \E u \in Users : balance_command(u)
    \/ Tick

SpecBalance == InitExpired /\ [][NextBalance]_vars

(* ------------------------------ properties ---------------------------- *)

\* the availability notification is being sent to a_cur in this step
AvailabilitySent == a_pc = "stock" /\ a_pc' = "send"

\* the order monitor begins a sweep in this step
O_SweepBegins ==
    /\ o_pc \in {"new", "sleepN"}
    /\ o_pc' # "done"
    /\ o_pc' # o_pc \/ o_wake' # o_wake

\* the orders the sweep that begins in this step has listed
O_Listed ==
    IF o_pc' = "sleepN" THEN {}
    ELSE {o_cur'} \cup {o_queue'[i] : i \in DOMAIN o_queue'}

\* o is active, its expiry has passed, and the order monitor has just
\* finished a sweep: it sleeps until o_wake, one interval after now
Stranded(o) ==
    /\ status[o] = "active"
    /\ expires_at[o] < now
    /\ o_pc = "sleepN"
    /\ o_wake > now

\* stop_monitoring has returned
Stopped == starts >= 1 /\ ~is_running /\ stop_pc = "idle"

\* C1: over a run of consecutive sweeps with a positive stock check, a user
\* who has no order gets the availability notification once: none is sent
\* while the user's cursor already records the notification of this run.
C1_OneNotificationPerRun ==
    [][(/\ faults = {}
        /\ AvailabilitySent
        /\ \A o \in OrderIds : owner[o] # a_cur)
       => ~notification_sent[a_cur]]_vars

\* C2: every active order reaches a terminal status: no order is still
\* active when the order monitor finishes a sweep after the order's expiry,
\* when nothing fails and the process clock is UTC.
C2_ActiveOrderResolved ==
    \A o \in OrderIds : (faults = {} /\ tz = 0) => ~Stranded(o)

\* C3: a sweep of the order monitor takes up every order whose status is
\* active when the sweep begins, whatever its expires_at.
C3_SweepListsEveryActiveOrder ==
    [][(faults = {} /\ tz = 0 /\ O_SweepBegins)
       => \A o \in OrderIds : status[o] = "active" => o \in O_Listed]_vars

\* C4: once an order's status is terminal, no step changes its status,
\* sms_content or completed_at, and a terminal notification already sent
\* is not sent again.
C4_TerminalIsFinal ==
    [][\A o \in OrderIds :
          status[o] \in Terminal
          => /\ status'[o] = status[o]
             /\ sms_content'[o] = sms_content[o]
             /\ completed_at'[o] = completed_at[o]
             /\ termNotif[o] >= 1 => termNotif'[o] = termNotif[o]]_vars

\* C5: an active order past its expiry is taken up for cancel/refund by
\* every sweep that begins, and when the cancel/refund call has returned
\* its status is refunded or expired.
C5_ExpiredOrderRefundPath ==
    [][(faults = {} /\ tz = 0)
       => /\ O_SweepBegins
             => \A o \in OrderIds :
                   (status[o] = "active" /\ expires_at[o] < LocalNow)
                   => o \in O_Listed
          /\ (o_pc = "cancel" /\ o_pc' # "cancel")
             => status'[o_cur] \in {"refunded", "expired"}]_vars

\* C6: for every order at most one terminal notification is sent and the
\* remote cancel/refund succeeds at most once.
C6_AtMostOnce ==
    \A o \in OrderIds : termNotif[o] <= 1 /\ refunds[o] <= 1

\* C7: at the moment an availability notification is sent to a user, that
\* user has no order in status active.
C7_NoNotificationWhileActive ==
    [][(faults = {} /\ AvailabilitySent)
       => get_active_orders(a_cur, TRUE) = {}]_vars

\* C8: a failure while one entity of a sweep is handled leaves the loop
\* alive and the rest of the sweep in place: after a failure the sweep ends
\* only when every listed entity has been taken up.
C8_FailureIsolated ==
    is_running
    => /\ a_failed # {} => (a_pc # "done" /\ (a_pc = "sleepN" => a_queue = << >>))
       /\ o_failed # {} => (o_pc # "done" /\ (o_pc = "sleepN" => o_queue = << >>))

\* in both monitors a later entity of the sweep is being handled after an
\* earlier one met a failure
C8_LaterEntityHandled ==
    /\ is_running
    /\ a_failed # {} /\ a_cur \notin a_failed /\ a_pc \in {"stock", "send"}
    /\ \A u \in a_failed : u < a_cur
    /\ o_failed # {} /\ o_cur \notin o_failed
    /\ o_pc \in {"check_sms", "cancel", "balance", "send"}
    /\ \A o \in o_failed : o < o_cur

\* C9: while the service is marked running both loops are alive, whatever
\* has failed, and a loop asleep between sweeps wakes within one interval.
C9_LoopsAlive ==
    is_running
    => /\ a_pc \notin {"none", "done"}
       /\ o_pc \notin {"none", "done"}
       /\ a_pc = "sleepN" => a_wake <= now + MONITORING_INTERVAL
       /\ o_pc = "sleepN" => o_wake <= now + MONITORING_INTERVAL

\* both loops are past their first sweep and something has failed in the
\* sweep they are in: the availability loop handles a user of a later
\* sweep, the order loop has completed an order in one sweep and met a
\* failed listing in a later one
C9_SweepsAfterFailure ==
    /\ is_running
    /\ a_wake >= 1 /\ a_pc \in {"stock", "send", "sleep1"} /\ a_failed # {}
    /\ o_failed = {0} /\ \E o \in OrderIds : status[o] = "completed"

\* C10: stop lets the handler in progress finish its entity: once stop has
\* returned, no order has its refund obtained with its status still active,
\* and none has a terminal status with no notification attempted.
C10_StopFinishesEntity ==
    (faults = {} /\ Stopped)
    => \A o \in OrderIds :
          /\ ~(refunds[o] >= 1 /\ status[o] = "active")
          /\ ~(status[o] \in Terminal /\ termNotif[o] = 0)

\* C11: stop is idempotent.  Wherever stop has returned or start was never
\* issued (the service is not running and no stop is in progress), both
\* loops have exited or were never created, and a further stop_monitoring
\* call runs to its end in one step and changes nothing.
C11_StopIdempotent ==
    (~is_running /\ stop_pc = "idle")
    => /\ a_pc \in {"none", "done"}
       /\ o_pc \in {"none", "done"}
       /\ ENABLED stop_monitoring
       /\ ~ENABLED (stop_monitoring /\ vars' # vars)

\* stop has returned after the loops had worked: a second stop finds two
\* finished tasks
C11_StoppedAfterWork ==
    /\ Stopped
    /\ a_pc = "done" /\ o_pc = "done"
    /\ \E o \in OrderIds : termNotif[o] >= 1

\* a monitor sends a request to the remote service in this step
MonitorRequest ==
    \/ a_pc' = "stock" /\ a_pc # "stock"
    \/ o_pc' \in {"check_sms", "cancel", "balance"} /\ o_pc' # o_pc

\* C12: at shutdown the client session is closed only after both monitor
\* loops have exited, and no monitor sends a request once post_stop has
\* closed the client.
C12_CloseAfterLoops ==
    [][/\ post_pc' = "down" => (a_pc' \in {"none", "done"} /\ o_pc' \in {"none", "done"})
       /\ MonitorRequest => (post_pc = "up" /\ session # "closed")]_vars

\* the monitors have used the session, both have exited and post_stop has
\* closed it
C12_ClosedAfterUse ==
    /\ post_pc = "down" /\ session = "closed"
    /\ a_pc = "done" /\ o_pc = "done"
    /\ \E o \in OrderIds : termNotif[o] >= 1

\* C13: the session is created on first use and shared: at most one session
\* is open at any time, it is the one the client holds, none exists before
\* the first request, close changes something only when a session is open,
\* and after shutdown none is open.
C13_OneSession ==
    /\ opened \in {0, 1}
    /\ opened = 1 <=> session = "open"
    /\ session = "none" => (a_pc # "stock" /\ o_pc \notin {"check_sms", "cancel", "balance"})
    /\ ENABLED (close /\ <<session, opened>>' # <<session, opened>>) => session = "open"
    /\ post_pc = "down" => (opened = 0 /\ session \in {"none", "closed"})

\* the first request of the availability monitor and the first request of
\* the order monitor are in flight together, on one session
C13_FirstRequestsTogether ==
    /\ a_pc = "stock" /\ a_cur = 1 /\ a_wake = 0
    /\ o_pc = "check_sms" /\ o_cur = 1 /\ o_wake = 0
    /\ \A o \in OrderIds : termNotif[o] = 0 /\ refunds[o] = 0
    /\ opened = 1

\* the order monitor takes up an order and sends its first request for it
OrderTakenUp ==
    /\ o_pc \in {"new", "sleepN", "sleep1"}
    /\ o_pc' \in {"check_sms", "cancel"}

\* C14: the expiry check comes first.  An order whose expires_at has passed
\* on the process clock when the monitor takes it up gets the cancel/refund
\* call, and no check_sms call is ever sent for such an order.
C14_ExpiryFirst ==
    [][/\ (OrderTakenUp /\ LocalNow > expires_at[o_cur']) => o_pc' = "cancel"
       /\ (o_pc' = "check_sms" /\ o_pc # "check_sms") => ~(LocalNow > expires_at[o_cur'])]_vars

\* an expired order, never checked for a code, has its cancel/refund call
\* in flight
C14_ExpiredBeingCancelled ==
    /\ o_pc = "cancel"
    /\ status[o_cur] = "active"
    /\ LocalNow > expires_at[o_cur]
    /\ sms_content[o_cur] = "NULL"

C18_NoCodeNoChange ==
    [][/\ (o_pc = "check_sms" /\ o_pc' = "sleep1")
          => UNCHANGED <<status, sms_content, completed_at, expires_at,
                         balance, termNotif, refunds>>
       /\ (O_SweepBegins /\ faults \subseteq {"remote"})
          => \A o \in o_failed \cap OrderIds :
                (status[o] = "active" /\ expires_at[o] > LocalNow) => o \in O_Listed]_vars

\* the check of order 1 met a transport failure in the sweep just over,
\* nothing was written, and the sweep now due takes order 1 up again
C18_CheckedAgain ==
    /\ faults = {"remote"}
    /\ o_pc = "sleepN" /\ now >= o_wake
    /\ 1 \in o_failed
    /\ status[1] = "active" /\ sms_content[1] = "NULL" /\ termNotif[1] = 0
    /\ ENABLED (O_SweepStart /\ o_cur' = 1 /\ o_pc' = "check_sms")

C20_FailedCheckSkipsUser ==
    [][(/\ "store" \notin faults
        /\ a_pc = "stock" /\ a_pc' = "sleep1"
        /\ a_cur \notin a_failed /\ a_cur \in a_failed')
       => UNCHANGED <<notification_sent, last_check>>]_vars

\* C21: a failed notification is never fatal and never retried.  With only
\* the notifier failing, the step that ends a send leaves the loop at the
\* next entity with the state changes of a successful send; no availability
\* notification is sent to a user whose notification failed in the window
\* still open; and no terminal notification is sent again for an order
\* whose notification failed.
C21_FailedSendNotRetried ==
    [][(faults \subseteq {"notify"}) =>
        /\ (a_pc = "send" /\ a_pc' = "sleep1")
           => /\ notification_sent'[a_cur]
              /\ last_check'[a_cur] = LocalNow
        /\ (o_pc = "send" /\ o_pc' = "sleep1") => UNCHANGED storeVars
        /\ AvailabilitySent => <<"user", a_cur>> \notin unsent
        /\ \A o \in OrderIds : <<"order", o>> \in unsent => termNotif'[o] = termNotif[o]]_vars

\* C22: when the write of the new status fails after the remote service has
\* carried out the refund, the order is left active, the handler goes on
\* to the balance fetch, and the sweep goes on: a sweep ends only with its
\* list exhausted and the loop never ends.
C22_FailedStatusWrite ==
    [][/\ (o_pc = "cancel" /\ o_pc' = "balance" /\ o_cur \in o_failed')
          => /\ status[o_cur] = "active"
             /\ refunds'[o_cur] = refunds[o_cur] + 1
             /\ UNCHANGED <<status, completed_at, o_queue, o_cur>>
       /\ (o_pc # "sleepN" /\ o_pc' = "sleepN") => o_queue = << >>
       /\ o_pc' \notin {"none", "done"}]_vars

\* the refund of order 1 was obtained, the write of its status failed and
\* the order is still active; the same sweep is at work on order 2
C22_SweepGoesOn ==
    /\ faults = {"store"}
    /\ status[1] = "active" /\ refunds[1] = 1 /\ 1 \in o_failed
    /\ o_cur = 2 /\ o_pc = "check_sms"

\* C23: expires_at is written once, when the order is created, as the
\* process clock plus the TTL the remote service quoted (the default when
\* it quoted none): a purchase can create an order with either, and with
\* nothing else; and no step changes it afterwards.
C23_ExpiresAtFixed ==
    [][/\ sold < MaxOrders
          => /\ ENABLED (handle_confirm_rent(1)
                          /\ expires_at'[sold + 1] = LocalNow + QUOTED_EXPIRES_IN)
             /\ ENABLED (handle_confirm_rent(1)
                          /\ expires_at'[sold + 1] = LocalNow + DEFAULT_EXPIRES_IN)
       /\ \A o \in OrderIds :
            /\ status[o] # "none" => expires_at'[o] = expires_at[o]
            /\ (status[o] = "none" /\ status'[o] # "none")
               => /\ expires_at[o] = NoTime
                  /\ expires_at'[o] \in {LocalNow + QUOTED_EXPIRES_IN,
                                         LocalNow + DEFAULT_EXPIRES_IN}
            /\ status'[o] = "none" => expires_at'[o] = NoTime]_vars

\* an order bought at time 0 with the quoted TTL has reached a terminal
\* status at a later time, its expires_at as it was written at creation
C23_TerminalKeepsExpiry ==
    \E o \in OrderIds :
        /\ status[o] \in Terminal /\ completed_at[o] >= 1
        /\ expires_at[o] = tz + QUOTED_EXPIRES_IN

\* C24: the two monitors write disjoint state.  A step of the availability
\* loop changes nothing but the cursor (last_check, notification_sent) of
\* the user at hand; a step of the order loop changes nothing of the users
\* but a cached balance, and never a cursor.
C24_DisjointWrites ==
    [][/\ aVars' # aVars
          => /\ UNCHANGED <<status, owner, expires_at, sms_content, completed_at, sold,
                            balance, userRow, is_monitoring>>
             /\ \A u \in Users : u # a_cur' =>
                   (last_check'[u] = last_check[u]
                    /\ notification_sent'[u] = notification_sent[u])
       /\ oVars' # oVars
          => UNCHANGED <<last_check, notification_sent, is_monitoring, userRow>>]_vars

\* both monitors have written: a cursor carries the time of a later sweep
\* and an order is completed
C24_BothHaveWritten ==
    /\ \E u \in Users : last_check[u] >= 1
    /\ \E o \in OrderIds : status[o] = "completed"

\* C25: after any sequence of start and stop calls (no call in progress),
\* each loop is alive exactly when the service is marked running; a start
\* issued while the service runs changes nothing; and whenever a loop of a
\* monitor is alive, no start creates another.
C25_OneLoopEach ==
    /\ stop_pc = "idle"
       => /\ is_running <=> a_pc \notin {"none", "done"}
          /\ is_running <=> o_pc \notin {"none", "done"}
    /\ is_running
       => /\ ENABLED start_monitoring
          /\ ~ENABLED (start_monitoring /\ vars' # vars)
    /\ (a_pc \notin {"none", "done"} \/ o_pc \notin {"none", "done"})
       => ~ENABLED (start_monitoring /\ starts' # starts)

\* the service was started, stopped and started again: the loops of the
\* second start are at work
C25_RestartedAndWorking ==
    /\ starts = 2 /\ is_running /\ stop_pc = "idle"
    /\ a_pc \in {"stock", "send", "sleep1"}
    /\ o_pc \in {"check_sms", "cancel", "balance", "send", "sleep1"}

\* C26: each monitor handles its entities strictly one after another.  A
\* monitor takes up an entity, and sends the first request for it, only
\* when the handler before has returned (the loop is at a sleep or has just
\* been created), so no monitor has two requests in flight.
C26_OneAtATime ==
    [][/\ (o_cur' # o_cur \/ o_queue' # o_queue \/ (o_pc' \in {"check_sms", "cancel"} /\ o_pc' # o_pc))
          => o_pc \in {"new", "sleepN", "sleep1"}
       /\ (o_pc' = "balance" /\ o_pc # "balance") => o_pc = "cancel"
       /\ (a_cur' # a_cur \/ a_queue' # a_queue \/ (a_pc' = "stock" /\ a_pc # "stock"))
          => a_pc \in {"new", "sleepN", "sleep1"}]_vars

\* the order monitor is at the request for its second order after the
\* first was completed and notified; the availability monitor has notified
\* its first user and has gone on to the second
C26_SecondEntityAfterFirst ==
    /\ o_cur = 2 /\ o_pc \in {"check_sms", "cancel"}
    /\ status[1] \in Terminal /\ termNotif[1] = 1
    /\ a_cur = 2 /\ a_pc = "sleep1" /\ notification_sent[1]

\* C27: when get_user finds no record of the order's owner, the handler
\* returns at once: the step that takes the order up sends no request, no
\* notification, writes nothing, and leaves the loop at the per-order sleep
\* with the rest of the list still to come.
C27_MissingUserSkipped ==
    [][(/\ o_pc \in {"new", "sleepN", "sleep1"}
        /\ o_pc' \in {"sleep1", "check_sms", "cancel"}
        /\ oVars' # oVars
        /\ o_cur' \in o_failed')
       => /\ o_pc' = "sleep1"
          /\ UNCHANGED <<storeVars, termNotif, refunds, session, opened, unsent>>
          /\ o_pc = "sleep1" => o_queue' = Tail(o_queue)]_vars

\* get_user failed for order 1: nothing was sent, written or notified for
\* it, and the same sweep is at the request for order 2
C27_NextOrderHandled ==
    /\ faults = {"store"}
    /\ 1 \in o_failed /\ status[1] = "active"
    /\ termNotif[1] = 0 /\ refunds[1] = 0
    /\ o_cur = 2 /\ o_pc \in {"check_sms", "cancel"}

\* C28: the availability monitor takes up, stock-checks and notifies only
\* users whose is_monitoring flag is set, and the cursor of a user whose
\* flag is off is not changed while the flag stays off.
C28_OnlyMonitoredUsers ==
    [][/\ a_cur' # a_cur => is_monitoring[a_cur']
       /\ a_pc' \in {"stock", "send"} => is_monitoring'[a_cur']
       /\ AvailabilitySent => is_monitoring[a_cur]
       /\ \A u \in Users :
            (~is_monitoring[u] /\ ~is_monitoring'[u])
            => UNCHANGED <<last_check[u], notification_sent[u]>>]_vars

\* user 1 is registered with monitoring off: a sweep has notified user 2
\* and ended, and user 1's cursor is as it was
C28_SweepPassedUserBy ==
    /\ userRow[1] /\ ~is_monitoring[1]
    /\ a_cur = 2 /\ a_pc = "sleepN"
    /\ notification_sent[2] /\ ~notification_sent[1] /\ last_check[1] = 0
    /\ now > 0

\* C29: once stop_monitoring has returned both loops have exited and, until
\* start is issued again, no request is sent, nothing is stored and nobody
\* is notified; and a loop whose task stop has cancelled makes no step but
\* its exit: the stop takes effect at the suspension point the loop is at,
\* not after the entities left in the sweep.
C29_StopAtNextSuspension ==
    [][/\ (~is_running' /\ stop_pc' = "idle")
          => (a_pc' \in {"none", "done"} /\ o_pc' \in {"none", "done"})
       /\ (~is_running /\ stop_pc = "idle")
          => (~MonitorRequest /\ UNCHANGED <<storeVars, histVars, unsent>>)
       /\ (a_cancel /\ aVars' # aVars) => a_pc' = "done"
       /\ (o_cancel /\ oVars' # oVars) => o_pc' = "done"]_vars

\* C30: a status changes only from active to completed, refunded or expired
\* (no operation writes cancelled, so every change ends in a terminal
\* status), and an order comes into being only in the step of a successful
\* purchase, as the next order, with status active.
C30_StatusLifecycle ==
    [][\A o \in OrderIds :
        status'[o] # status[o]
        => IF status[o] = "none"
           THEN /\ status'[o] = "active"
                /\ sold' = sold + 1 /\ o = sold'
                /\ owner'[o] \in Users
                /\ sms_content'[o] = "NULL" /\ completed_at'[o] = NoTime
           ELSE /\ status[o] = "active"
                /\ status'[o] \in {"completed", "refunded", "expired"}
                /\ status'[o] \in Terminal
                /\ o = o_cur /\ UNCHANGED sold]_vars

\* both orders were bought in this run; the monitor completed one and
\* refunded or expired the other
C30_BoughtAndFinished ==
    /\ sold = 2
    /\ status[1] = "completed"
    /\ status[2] \in {"refunded", "expired"}

\* C31: status provenance.  An order becomes refunded only in the step in
\* which its cancel call returns success (the handler goes on to
\* get_balance), expired only in the step in which its cancel call returns
\* without success (no refund is counted), and completed only in the step in
\* which its check_sms call reports a received message; so a refunded order
\* has a successful cancel call behind it.
C31_StatusProvenance ==
    [][\A o \in OrderIds :
        /\ (status'[o] # status[o] /\ status[o] # "none")
           => /\ o = o_cur /\ o_cur' = o_cur
              /\ status'[o] \in {"refunded", "expired", "completed"}
              /\ status'[o] = "refunded"
                 => (o_pc = "cancel" /\ o_pc' = "balance" /\ refunds'[o] = refunds[o] + 1)
              /\ status'[o] = "expired"
                 => (o_pc = "cancel" /\ o_pc' = "send" /\ refunds'[o] = refunds[o])
              /\ status'[o] = "completed"
                 => (o_pc = "check_sms" /\ o_pc' = "send" /\ sms_content'[o] # "NULL")
        /\ status'[o] = "refunded" => refunds'[o] >= 1]_vars

\* one order was refunded after a successful cancel call, the other marked
\* expired after a cancel call that was refused
C31_RefundedAndExpired ==
    /\ status[1] = "refunded" /\ refunds[1] = 1
    /\ status[2] = "expired" /\ refunds[2] = 0

\* C32: an order with status completed holds the code the remote service
\* returned: its sms_content is neither NULL nor the placeholder written
\* when the service only reported the rental as completed.
C32_CompletedHasCode ==
    \A o \in OrderIds : status[o] = "completed" => sms_content[o] = "1234"

\* C33: the orders table holds exactly the rentals the remote service has
\* sold: every rental rent_number reported as bought has a row (so the
\* order monitor will list it), and there is no row without a purchase.
C33_SoldIsRecorded ==
    \A o \in OrderIds : o <= sold <=> status[o] # "none"

\* C34: the cached balance of a user changes only to a balance a successful
\* get_balance call returned, and when the order monitor writes it, it is
\* the balance of the owner of the order being refunded; whatever get_balance
\* returns after a refund, the order's status stays as the refund left it
\* and the notification is sent; the balance is never 0.
C34_BalanceFromRemote ==
    [][/\ \A u \in Users :
            /\ balance'[u] # 0
            /\ balance'[u] # balance[u]
               => /\ balance'[u] \in RemoteBalances
                  /\ oVars' # oVars => (o_pc = "balance" /\ u = owner[o_cur])
       /\ (o_pc = "balance" /\ o_pc' # "balance")
          => /\ o_pc' = "send"
             /\ termNotif'[o_cur] = termNotif[o_cur] + 1
             /\ UNCHANGED status]_vars

\* the refund of order 1 went through, the balance refresh failed: the
\* order is refunded, its owner was notified once, and the cached balance is
\* the one from before
C34_RefundedBalanceKept ==
    /\ faults = {"remote"}
    /\ status[1] = "refunded" /\ 1 \in o_failed
    /\ termNotif[1] = 1
    /\ balance[owner[1]] = 1
    /\ o_cur = 1 /\ o_pc = "send"

\* C35: the skip rule is not permanent.  With nothing failing, whenever the
\* availability monitor passes a user by because of an active order, some
\* active order of that user is still within reach of the order monitor: it
\* is being handled, waits in the list of the running sweep, or has an
\* expires_at a later listing can still exceed; so the order is resolved in
\* the end and the user is notified again.
C35_SkipNotPermanent ==
    [][(/\ faults = {}
        /\ a_pc \in {"new", "sleepN", "sleep1"}
        /\ a_pc' = "sleep1")
       => \E o \in OrderIds :
            /\ owner[o] = a_cur' /\ status[o] = "active"
            /\ \/ expires_at[o] > now
               \/ o = o_cur /\ o_pc \in {"check_sms", "cancel", "balance"}
               \/ \E i \in DOMAIN o_queue : o_queue[i] = o]_vars

\* C36: in the availability step the send comes before the cursor write.
\* notification_sent of a user is turned on only by the step that ends a
\* send to that user; the step that begins the send writes no cursor; and
\* when the task is cancelled while the send is under way the cursor keeps
\* its previous value.
C36_SendBeforeCursor ==
    [][/\ \A u \in Users :
            (notification_sent'[u] /\ ~notification_sent[u])
            => (a_pc = "send" /\ a_cur = u /\ a_pc' = "sleep1")
       /\ AvailabilitySent => UNCHANGED <<notification_sent, last_check>>
       /\ (a_pc = "send" /\ a_pc' = "done")
          => UNCHANGED <<notification_sent, last_check>>]_vars

\* user 1 was notified and the cursor written after it; the send to user 2
\* is under way, user 2's cursor still unwritten, and stop has cancelled the
\* task
C36_CancelledDuringSend ==
    /\ notification_sent[1]
    /\ a_cur = 2 /\ a_pc = "send" /\ a_cancel
    /\ ~notification_sent[2] /\ last_check[2] = 0

=============================================================================
